---- MODULE Spec2Model ----
(***************************************************************************)
(* A model of AddWatermark.py: the compositor add_image_watermark (a pure  *)
(* function of its arguments and of the files it reads) and the batch      *)
(* driver WatermarkApp.add_watermark that calls it once per selected file. *)
(*                                                                         *)
(* Python floats are IEEE-754 doubles.  The sizes the compositor computes  *)
(* go through true division and float multiplication followed by int(),    *)
(* and the rounding of the intermediate double decides the result (for a   *)
(* 9x7 image and target width 9, int(9 / (9 / 7)) is 6).  The doubles are  *)
(* therefore modelled exactly: a mantissa of MantBits bits kept as a       *)
(* little-endian tuple of limbs, and a binary exponent.                    *)
(***************************************************************************)
EXTENDS Integers, Sequences, FiniteSets, TLC

(***************************************************************************)
(* The one element of a singleton set.  One({e(x) : x \in {v}}) is e(v)    *)
(* with v computed once, however often e uses it: the way the program      *)
(* keeps a value in a local variable.                                      *)
(***************************************************************************)
One(S) == CHOOSE x \in S : TRUE

(***************************************************************************)
(* Natural numbers wider than 32-bit integers: NLimbs limbs of LimbBits     *)
(* bits each, least significant first.                                     *)
(***************************************************************************)
LimbBits == 15
NLimbs == 5
MantBits == 53
Base == 2^LimbBits

BZero == <<0, 0, 0, 0, 0>>

\* 0 <= n < Base * Base
BFromInt(n) == <<n % Base, n \div Base, 0, 0, 0>>

BToInt(a) == a[1] + Base * a[2]

BIsZero(a) == a = BZero

BOdd(a) == a[1] % 2 = 1

\* a >= b, from the most significant limb down
BGe(a, b) ==
  IF a[5] # b[5] THEN a[5] > b[5]
  ELSE IF a[4] # b[4] THEN a[4] > b[4]
  ELSE IF a[3] # b[3] THEN a[3] > b[3]
  ELSE IF a[2] # b[2] THEN a[2] > b[2]
  ELSE a[1] >= b[1]

\* the borrow out of limb i of a - b
RECURSIVE Borrow(_, _, _)
Borrow(a, b, i) ==
  IF i = 0 THEN 0
  ELSE IF a[i] - b[i] - Borrow(a, b, i - 1) < 0 THEN 1 ELSE 0

\* a - b, for a >= b
BSub(a, b) ==
  LET limb(i) == (a[i] - b[i] - Borrow(a, b, i - 1)) % Base
  IN  <<limb(1), limb(2), limb(3), limb(4), limb(5)>>

\* the carry out of limb i of a * x
RECURSIVE Carry(_, _, _)
Carry(a, x, i) ==
  IF i = 0 THEN 0 ELSE (a[i] * x + Carry(a, x, i - 1)) \div Base

\* a * x, for 0 <= x < Base
BMulSmall(a, x) ==
  LET limb(i) == (a[i] * x + Carry(a, x, i - 1)) % Base
  IN  <<limb(1), limb(2), limb(3), limb(4), limb(5)>>

\* a + 1
BInc(a) ==
  LET limb(i) == IF \A j \in 1..(i - 1) : a[j] = Base - 1 THEN (a[i] + 1) % Base ELSE a[i]
  IN  <<limb(1), limb(2), limb(3), limb(4), limb(5)>>

\* the number of bits of the limb v, 0 <= v < Base
LimbLen(v) == CHOOSE k \in 0..LimbBits : v < 2^k /\ (k = 0 \/ v >= 2^(k - 1))

\* the number of bits of a
BLen(a) ==
  IF BIsZero(a) THEN 0
  ELSE One({ (top - 1) * LimbBits + LimbLen(a[top]) :
             top \in {i \in 1..NLimbs : a[i] # 0 /\ \A j \in (i + 1)..NLimbs : a[j] = 0} })

\* a * 2^k
BShlLimbs(part, up) ==
  LET limb(i) == IF i > up THEN part[i - up] ELSE 0
  IN  <<limb(1), limb(2), limb(3), limb(4), limb(5)>>

BShl(a, k) ==
  One({ BShlLimbs(part, k \div LimbBits) : part \in {BMulSmall(a, 2^(k % LimbBits))} })

\* limb i of a, 0 past the last one
LimbAt(a, i) == IF i <= NLimbs THEN a[i] ELSE 0

\* floor(a / 2^k)
BShrLimbs(a, up, b) ==
  LET limb(i) == (LimbAt(a, i + up) \div 2^b) + (LimbAt(a, i + up + 1) % 2^b) * 2^(LimbBits - b)
  IN  <<limb(1), limb(2), limb(3), limb(4), limb(5)>>

BShr(a, k) == BShrLimbs(a, k \div LimbBits, k % LimbBits)

\* bit k of a (bit 0 is the lowest)
BBit(a, k) == (a[(k \div LimbBits) + 1] \div 2^(k % LimbBits)) % 2 = 1

\* a % 2^k = 0
BLowZero(a, k) ==
  /\ \A i \in 1..(k \div LimbBits) : a[i] = 0
  /\ (k % LimbBits = 0 \/ a[(k \div LimbBits) + 1] % 2^(k % LimbBits) = 0)

\* r * Base
BUpLimb(r) == <<0, r[1], r[2], r[3], r[4]>>

(***************************************************************************)
(* Doubles >= 0: [m, e] stands for m * 2^e, with 2^(MantBits-1) <= m <     *)
(* 2^MantBits, or m = 0.  Every operation rounds its exact result to the   *)
(* nearest double, ties to even, as the hardware does.  The values of the  *)
(* program stay far from the overflow and subnormal ranges.                *)
(***************************************************************************)
FZero == [m |-> BZero, e |-> 0]

\* q * 2^e after the rounding carried it to r
FRenorm(r, e) ==
  IF BLen(r) > MantBits THEN [m |-> BShr(r, 1), e |-> e + 1] ELSE [m |-> r, e |-> e]

\* p = q * 2^sh + (the sh bits dropped): q rounded to nearest, ties to even
FRoundUp(p, q, sh, sticky) ==
  /\ sh > 0
  /\ BBit(p, sh - 1)
  /\ (sticky \/ (sh > 1 /\ ~BLowZero(p, sh - 1)) \/ BOdd(q))

\* the double nearest to p * 2^e (ties to even), p of at least MantBits bits;
\* sticky tells that the exact value lies strictly above p * 2^e
FRound(p0, e, sticky) ==
  One({ FRenorm(IF FRoundUp(t.p, t.q, t.sh, sticky) THEN BInc(t.q) ELSE t.q, e + t.sh) :
        t \in { [p |-> s.p, sh |-> s.sh, q |-> BShr(s.p, s.sh)] :
                s \in { [p |-> p, sh |-> BLen(p) - MantBits] : p \in {p0} } } })

\* one step of long division in base Base: the next quotient digit of u / d
\* and the remainder, where u < d * Base and the top limb of d (limb top) has
\* its highest bit set, so that the estimate qh from the leading limbs is at
\* most 2 too large
FDigitFix(u, d, qh, p0) ==
  IF BGe(u, p0) THEN [q |-> qh, r |-> BSub(u, p0)]
  ELSE One({ IF BGe(u, p1) THEN [q |-> qh - 1, r |-> BSub(u, p1)]
             ELSE [q |-> qh - 2, r |-> BSub(u, BSub(p1, d))] :
             p1 \in {BSub(p0, d)} })

FDigit(u, d, top) ==
  One({ FDigitFix(u, d, qh, BMulSmall(d, qh)) :
        qh \in { IF est > Base - 1 THEN Base - 1 ELSE est :
                 est \in {(u[top + 1] * Base + u[top]) \div d[top]} } })

\* n more digits of the quotient r / d in front of the digits q
RECURSIVE FDigits(_, _, _, _, _)
FDigits(r, d, top, n, q) ==
  IF n = 0 THEN [q |-> q, r |-> r]
  ELSE One({ FDigits(s.r, d, top, n - 1, <<s.q>> \o q) :
             s \in {FDigit(BUpLimb(r), d, top)} })

\* a and d of the same length, a whole number of limbs: the leading bit of
\* the quotient, then NLimbs - 1 digits
FQuotAligned(a, d, top) ==
  One({ FDigits(IF q0 = 1 THEN BSub(a, d) ELSE a, d, top, NLimbs - 1, <<q0>>) :
        q0 \in {IF BGe(a, d) THEN 1 ELSE 0} })

\* the double nearest to a / d, for naturals a >= 0 and d > 0 with a no
\* longer than d rounded up to whole limbs
FQuot(a0, d0) ==
  IF BIsZero(a0) THEN FZero
  ELSE One({ FRound(qr.q, t.la - t.ld - (NLimbs - 1) * LimbBits, ~BIsZero(qr.r)) :
             t \in { [la |-> BLen(a), ld |-> BLen(d)] : a \in {a0}, d \in {d0} },
             qr \in { FQuotAligned(BShl(l.a, l.top * LimbBits - l.la),
                                   BShl(l.d, l.top * LimbBits - l.ld), l.top) :
                      l \in { [a |-> a, d |-> d, la |-> BLen(a), ld |-> BLen(d),
                               top |-> (BLen(d) + LimbBits - 1) \div LimbBits] :
                              a \in {a0}, d \in {d0} } } })

\* int / int: Python's true division of two integers in 1..Base-1
FDivInt(a, b) == FQuot(BFromInt(a), BFromInt(b))

\* float(text) for the decimal text num/den: the nearest double
FParse(num, den) == FDivInt(num, den)

\* float * int, 0 <= n < Base
FMulInt(x0, n) ==
  One({ IF n = 0 \/ BIsZero(x.m) THEN FZero ELSE FRound(BMulSmall(x.m, n), x.e, FALSE) :
        x \in {x0} })

\* int / float, the float > 0 and 0 <= n < Base
FIntDiv(n, x0) ==
  One({ IF BIsZero(t.q.m) THEN FZero ELSE [m |-> t.q.m, e |-> t.q.e - t.x.e] :
        t \in { [x |-> x, q |-> FQuot(BFromInt(n), x.m)] : x \in {x0} } })

\* x <= y
FLe(x, y) ==
  IF BIsZero(x.m) THEN TRUE
  ELSE IF BIsZero(y.m) THEN FALSE
  ELSE x.e < y.e \/ (x.e = y.e /\ BGe(y.m, x.m))

\* int(x): the integer part of a double 0 <= x < Base * Base
FTrunc(x0) ==
  One({ IF BIsZero(x.m) \/ -x.e >= NLimbs * LimbBits THEN 0
        ELSE BToInt(BShr(x.m, -x.e)) : x \in {x0} })

(***************************************************************************)
(* Text.  A Python str is a tuple of one-character strings, so that the    *)
(* case conversions, the suffix tests and the path functions act on the    *)
(* characters as the library does.                                         *)
(***************************************************************************)
LowerLetters == <<"a", "b", "c", "d", "e", "f", "g", "h", "i", "j", "k", "l", "m",
                  "n", "o", "p", "q", "r", "s", "t", "u", "v", "w", "x", "y", "z">>
UpperLetters == <<"A", "B", "C", "D", "E", "F", "G", "H", "I", "J", "K", "L", "M",
                  "N", "O", "P", "Q", "R", "S", "T", "U", "V", "W", "X", "Y", "Z">>
DigitChars == <<"0", "1", "2", "3", "4", "5", "6", "7", "8", "9">>

UpperChar(c) ==
  IF \E i \in 1..Len(LowerLetters) : LowerLetters[i] = c
  THEN UpperLetters[CHOOSE i \in 1..Len(LowerLetters) : LowerLetters[i] = c]
  ELSE c

LowerChar(c) ==
  IF \E i \in 1..Len(UpperLetters) : UpperLetters[i] = c
  THEN LowerLetters[CHOOSE i \in 1..Len(UpperLetters) : UpperLetters[i] = c]
  ELSE c

\* str.upper(), str.lower()
RECURSIVE upper(_)
upper(s) == IF s = <<>> THEN <<>> ELSE <<UpperChar(Head(s))>> \o upper(Tail(s))

RECURSIVE lower(_)
lower(s) == IF s = <<>> THEN <<>> ELSE <<LowerChar(Head(s))>> \o lower(Tail(s))

\* str.endswith(suffix)
endswith(s, suffix) ==
  /\ Len(suffix) <= Len(s)
  /\ \A i \in 1..Len(suffix) : s[Len(s) - Len(suffix) + i] = suffix[i]

\* str.rfind(c) for a single character, counted from 1; 0 when absent
rfind(s, c) ==
  IF \E i \in 1..Len(s) : s[i] = c
  THEN CHOOSE i \in 1..Len(s) : s[i] = c /\ \A j \in (i + 1)..Len(s) : s[j] # c
  ELSE 0

\* os.path.join(a, b) (posixpath)
join(a, b) ==
  IF Len(b) > 0 /\ b[1] = "/" THEN b
  ELSE IF Len(a) = 0 \/ a[Len(a)] = "/" THEN a \o b
  ELSE a \o <<"/">> \o b

\* os.path.basename(p)
basename(p) == SubSeq(p, rfind(p, "/") + 1, Len(p))

\* os.path.splitext(p)[0]: the extension starts at the last dot of the last
\* component, unless only dots precede that dot in the component
splitext_root(p) ==
  LET sepIndex == rfind(p, "/")
      dotIndex == rfind(p, ".")
  IN  IF dotIndex > sepIndex
         /\ \E k \in (sepIndex + 1)..(dotIndex - 1) : p[k] # "."
      THEN SubSeq(p, 1, dotIndex - 1)
      ELSE p

\* str(n) for n >= 0
RECURSIVE decimal(_)
decimal(n) ==
  IF n < 10 THEN <<DigitChars[n + 1]>>
  ELSE Append(decimal(n \div 10), DigitChars[(n % 10) + 1])

\* f"{n:03d}" for n >= 0: at least PadWidth digits, zeros on the left
PadWidth == 3
RECURSIVE zfill(_, _)
zfill(d, width) == IF Len(d) >= width THEN d ELSE zfill(<<"0">> \o d, width)

MutFormatWidthTwo(n) == zfill(decimal(n), PadWidth - 1)

format_03d(n) == zfill(decimal(n), PadWidth)

(***************************************************************************)
(* add_image_watermark.  One argument record c stands for the arguments    *)
(* and for what the call finds outside itself:                             *)
(*   c.image      the file at input_image_path: [readable, width, height,  *)
(*                mode]                                                    *)
(*   c.watermark  the file at watermark_image_path: [readable, width,      *)
(*                height, alpha], alpha one source pixel's alpha value     *)
(*   c.opacity, c.watermark_ratio   the decimal num/den the float was      *)
(*                parsed from, as <<num, den>>                             *)
(*   c.encode_ok  whether the codec and the file system accept the save    *)
(* The positions 左上, 右上, 右下, 左下, 居中 of the source are written         *)
(* top_left, top_right, bottom_right, bottom_left, center.                 *)
(***************************************************************************)
Inset == 10
DefaultName == <<"w", "a", "t", "e", "r", "m", "a", "r", "k", "e", "d", "_", "i", "m", "a", "g", "e">>
WatermarkedPrefix == <<"w", "a", "t", "e", "r", "m", "a", "r", "k", "e", "d", "_">>

F_JPG == <<"J", "P", "G">>
F_JPEG == <<"J", "P", "E", "G">>
F_PNG == <<"P", "N", "G">>
F_TIFF == <<"T", "I", "F", "F">>
F_WEBP == <<"W", "E", "B", "P">>

\* target_height = int(target_width / aspect_ratio), aspect_ratio = width / height
MutTargetHeightRound(target_width, width, height) ==
  (2 * target_width * height + width) \div (2 * width)

target_height(target_width, width, height) ==
  FTrunc(FIntDiv(target_width, FDivInt(width, height)))

\* the size of the base image after the optional resize
resized_base(image, target_width) ==
  IF target_width # 0
  THEN <<target_width, target_height(target_width, image.width, image.height)>>
  ELSE <<image.width, image.height>>

\* Image.resize((w, h), ...) raises ValueError unless both are at least 1
resize_ok(size) == size[1] >= 1 /\ size[2] >= 1

\* alpha.point(lambda x: int(x * opacity)) at the pixel value x
MutPointRound(x, opacity) ==
  (2 * x * opacity[1] + opacity[2]) \div (2 * opacity[2])

point_alpha(x, opacity) == FTrunc(FMulInt(FParse(opacity[1], opacity[2]), x))

\* watermark_width = int(watermark_ratio * (target_width if target_width else base_image.width))
MutWatermarkWidthRound(watermark_ratio, target_width, base_width) ==
  (2 * watermark_ratio[1] * (IF target_width # 0 THEN target_width ELSE base_width)
     + watermark_ratio[2]) \div (2 * watermark_ratio[2])

watermark_width(watermark_ratio, target_width, base_width) ==
  FTrunc(FMulInt(FParse(watermark_ratio[1], watermark_ratio[2]),
                 IF target_width # 0 THEN target_width ELSE base_width))

\* watermark_height = int(watermark_width * (watermark.height / watermark.width))
watermark_height(wm_width, watermark) ==
  FTrunc(FMulInt(FDivInt(watermark.height, watermark.width), wm_width))

Positions == {"top_left", "top_right", "bottom_right", "bottom_left", "center"}

MutPositionMapNoInset(base, wm) ==
  [ top_left |-> <<Inset, Inset>>,
    top_right |-> <<base[1] - wm[1], Inset>>,
    bottom_right |-> <<base[1] - wm[1], base[2] - wm[2]>>,
    bottom_left |-> <<Inset, base[2] - wm[2]>>,
    center |-> <<(base[1] - wm[1]) \div 2, (base[2] - wm[2]) \div 2>> ]

position_map(base, wm) ==
  [ top_left |-> <<Inset, Inset>>,
    top_right |-> <<base[1] - wm[1] - Inset, Inset>>,
    bottom_right |-> <<base[1] - wm[1] - Inset, base[2] - wm[2] - Inset>>,
    bottom_left |-> <<Inset, base[2] - wm[2] - Inset>>,
    center |-> <<(base[1] - wm[1]) \div 2, (base[2] - wm[2]) \div 2>> ]

\* position_map.get(position, position_map["左上"])
MutPositionGetCenter(position, map) ==
  IF position \in DOMAIN map THEN map[position] ELSE map["center"]

watermark_position(position, map) ==
  IF position \in DOMAIN map THEN map[position] ELSE map["top_left"]

\* the name of the output file
MutFilenameKeepFirst(input_image_path, output_format, custom_name, keep_original_name, file_index) ==
  LET stem == splitext_root(basename(input_image_path))
      ext == <<".">> \o lower(output_format)
  IN  IF keep_original_name THEN custom_name \o <<"_">> \o stem \o ext
      ELSE IF custom_name = DefaultName THEN WatermarkedPrefix \o stem \o ext
      ELSE custom_name \o <<"_">> \o format_03d(file_index) \o ext

output_filename(input_image_path, output_format, custom_name, keep_original_name, file_index) ==
  LET stem == splitext_root(basename(input_image_path))
      ext == <<".">> \o lower(output_format)
  IN  IF custom_name = DefaultName THEN WatermarkedPrefix \o stem \o ext
      ELSE IF keep_original_name THEN custom_name \o <<"_">> \o stem \o ext
      ELSE custom_name \o <<"_">> \o format_03d(file_index) \o ext

\* the branch of the save: the encoder's name and the mode of the image
\* handed to it, or "" for a format the chain of tests does not know
MutSaveFormatKeepsAlpha(output_format, png_transparency, mode) ==
  LET f == upper(output_format)
  IN  IF f \in {F_JPG, F_JPEG} THEN [format |-> "JPEG", mode |-> "RGB"]
      ELSE IF f = F_PNG THEN [format |-> "PNG", mode |-> mode]
      ELSE IF f = F_TIFF THEN [format |-> "TIFF", mode |-> mode]
      ELSE IF f = F_WEBP THEN [format |-> "WEBP", mode |-> mode]
      ELSE [format |-> "", mode |-> mode]

MutSaveFormatDefaultPng(output_format, png_transparency, mode) ==
  LET f == upper(output_format)
  IN  IF f \in {F_JPG, F_JPEG} THEN [format |-> "JPEG", mode |-> "RGB"]
      ELSE IF f = F_TIFF THEN [format |-> "TIFF", mode |-> mode]
      ELSE IF f = F_WEBP THEN [format |-> "WEBP", mode |-> mode]
      ELSE [format |-> "PNG", mode |-> IF png_transparency THEN mode ELSE "RGB"]

save_format(output_format, png_transparency, mode) ==
  LET f == upper(output_format)
  IN  IF f \in {F_JPG, F_JPEG} THEN [format |-> "JPEG", mode |-> "RGB"]
      ELSE IF f = F_PNG
           THEN [format |-> "PNG", mode |-> IF png_transparency THEN mode ELSE "RGB"]
      ELSE IF f = F_TIFF THEN [format |-> "TIFF", mode |-> mode]
      ELSE IF f = F_WEBP THEN [format |-> "WEBP", mode |-> mode]
      ELSE [format |-> "", mode |-> mode]

\* what a call leaves behind; the fields past the step that raised keep the
\* values of NoResult
NoResult ==
  [ status |-> "none", value |-> <<>>, error |-> "", cause |-> "", step |-> "",
    base_size |-> <<0, 0>>, watermark_alpha |-> 0, watermark_size |-> <<0, 0>>,
    watermark_position |-> <<0, 0>>, output_path |-> <<>>,
    saved |-> FALSE, encoded |-> [format |-> "", mode |-> ""] ]

\* except Exception as e: raise RuntimeError(...) from within the handler,
\* so that the RuntimeError carries e as its context
MutRaiseUnwrapped(r, step, cause) ==
  [r EXCEPT !.status = "raised", !.error = cause, !.cause = "", !.step = step]

raise_wrapped(r, step, cause) ==
  [r EXCEPT !.status = "raised", !.error = "RuntimeError", !.cause = cause, !.step = step]

\* the paste, the file name and the save, r the call so far
save_image(c, r) ==
  One({ IF enc.format = "" THEN raise_wrapped(r4, "format", "UnsupportedFormat")
        ELSE IF ~c.encode_ok THEN raise_wrapped(r4, "save", "EncodeError")
        ELSE [r4 EXCEPT !.status = "returned", !.value = r4.output_path, !.step = "done",
                        !.saved = TRUE, !.encoded = enc] :
        r4 \in { [r EXCEPT
                    !.watermark_position =
                       watermark_position(c.position,
                                          position_map(r.base_size, r.watermark_size)),
                    !.output_path =
                       join(c.output_image_path,
                            output_filename(c.input_image_path, c.output_format,
                                            c.custom_name, c.keep_original_name,
                                            c.file_index))] },
        enc \in {save_format(c.output_format, c.png_transparency, c.image.mode)} })

\* (watermark_width, watermark_height)
watermark_size(watermark_ratio, target_width, base_width, watermark) ==
  One({ <<w, watermark_height(w, watermark)>> :
        w \in {watermark_width(watermark_ratio, target_width, base_width)} })

\* the watermark is opened, faded and resized, r the call so far
apply_watermark(c, r) ==
  IF ~c.watermark.readable THEN raise_wrapped(r, "watermark", "DecodeError")
  ELSE One({ IF ~resize_ok(wm) THEN raise_wrapped(r2, "watermark_resize", "ValueError")
             ELSE save_image(c, [r2 EXCEPT !.watermark_size = wm]) :
             r2 \in {[r EXCEPT !.watermark_alpha = point_alpha(c.watermark.alpha, c.opacity)]},
             wm \in {watermark_size(c.watermark_ratio, c.target_width, r.base_size[1],
                                    c.watermark)} })

add_image_watermark(c) ==
  IF ~c.image.readable THEN raise_wrapped(NoResult, "open", "DecodeError")
  ELSE One({ IF c.target_width # 0 /\ ~resize_ok(base)
             THEN raise_wrapped(NoResult, "resize", "ValueError")
             ELSE apply_watermark(c, [NoResult EXCEPT !.base_size = base]) :
             base \in {resized_base(c.image, c.target_width)} })

(***************************************************************************)
(* The calls the compositor is checked on: several families of arguments,  *)
(* each varying some of them around DefaultCall.                           *)
(***************************************************************************)
MaxDim == 12
MaxTargetWidth == 12
MaxWm == 2
RatioDen == 10
MaxAlpha == 255
MaxIndex == 1000

\* the decimals k/RatioDen the validation accepts: 0.1 <= k/RatioDen <= 1.0
Ratios == {<<k, RatioDen>> : k \in {j \in 1..RatioDen : 10 * j >= RatioDen}}

Modes == {"1", "L", "P", "LA", "RGB", "RGBA", "CMYK"}

N_a_jpg == <<"a", ".", "j", "p", "g">>
N_a_png == <<"a", ".", "p", "n", "g">>
N_a_b_png == <<"a", ".", "b", ".", "p", "n", "g">>
N_dot_png == <<".", "p", "n", "g">>
N_xjpg == <<"x", "j", "p", "g">>
N_b_JPG == <<"b", ".", "J", "P", "G">>
N_notes_txt == <<"n", "o", "t", "e", "s", ".", "t", "x", "t">>
Names == {N_a_jpg, N_a_png, N_a_b_png, N_dot_png, N_xjpg, N_b_JPG}

InDir == <<"i", "n">>
OutDir == <<"o", "u", "t">>
OutDirs == {OutDir, <<"o", "u", "t", "/">>}

CustomWm == <<"w", "m">>
CustomNames == {DefaultName, CustomWm, <<"w", "a", "t", "e", "r", "m", "a", "r", "k", "e", "d">>}

Formats ==
  { F_JPG, F_JPEG, F_PNG, F_TIFF, F_WEBP,
    <<"j", "p", "g">>, <<"P", "n", "g">>, <<"t", "i", "f", "f">>,
    <<"B", "M", "P">>, <<"g", "i", "f">>, <<>> }

PositionTags == Positions \cup {"", "middle"}

DefaultCall ==
  [ input_image_path |-> join(InDir, N_a_jpg),
    output_image_path |-> OutDir,
    image |-> [readable |-> TRUE, width |-> MaxDim, height |-> MaxDim, mode |-> "RGB"],
    watermark |-> [readable |-> TRUE, width |-> 1, height |-> 1, alpha |-> MaxAlpha],
    opacity |-> <<RatioDen, RatioDen>>,
    target_width |-> 0,
    watermark_ratio |-> <<1, RatioDen>>,
    position |-> "bottom_right",
    output_format |-> F_JPG,
    custom_name |-> DefaultName,
    keep_original_name |-> TRUE,
    file_index |-> 1,
    png_transparency |-> TRUE,
    encode_ok |-> TRUE ]

ResizeCalls ==
  { [DefaultCall EXCEPT !.image.width = w, !.image.height = h, !.target_width = tw,
                        !.watermark_ratio = r] :
      w \in 1..MaxDim, h \in 1..MaxDim, tw \in 0..MaxTargetWidth,
      r \in {<<1, RatioDen>>, <<RatioDen, RatioDen>>} }

PlaceCalls ==
  { [DefaultCall EXCEPT !.image.width = w, !.image.height = h, !.target_width = tw,
                        !.watermark_ratio = r, !.watermark.width = ww,
                        !.watermark.height = wh, !.position = p] :
      w \in (MaxDim - 1)..MaxDim, h \in (MaxDim - 1)..MaxDim, tw \in {0, MaxTargetWidth},
      r \in Ratios, ww \in 1..MaxWm, wh \in 1..MaxWm, p \in PositionTags }

AlphaCalls ==
  { [DefaultCall EXCEPT !.opacity = o, !.watermark.alpha = x] :
      o \in Ratios, x \in 0..MaxAlpha }

NameCalls ==
  { [DefaultCall EXCEPT !.input_image_path = join(InDir, n), !.output_image_path = d,
                        !.custom_name = cn, !.keep_original_name = k,
                        !.file_index = i, !.output_format = f] :
      n \in Names, d \in OutDirs, cn \in CustomNames, k \in BOOLEAN,
      i \in {1, MaxIndex}, f \in Formats }

IndexCalls ==
  { [DefaultCall EXCEPT !.custom_name = CustomWm, !.keep_original_name = FALSE,
                        !.file_index = i] : i \in 1..MaxIndex }

EncodeCalls ==
  { [DefaultCall EXCEPT !.output_format = f, !.png_transparency = t, !.image.mode = m,
                        !.image.readable = ir, !.watermark.readable = wr,
                        !.encode_ok = ok] :
      f \in Formats, t \in BOOLEAN, m \in Modes, ir \in BOOLEAN, wr \in BOOLEAN,
      ok \in BOOLEAN }

\* a 2000x1000 image at target width 1000, ratio 0.2, opacity 0.5, bottom right
ScenarioCalls ==
  { [DefaultCall EXCEPT !.image.width = 2000, !.image.height = 1000,
                        !.target_width = 1000, !.watermark_ratio = <<2, 10>>,
                        !.opacity = <<5, 10>>, !.position = "bottom_right",
                        !.watermark.width = ww, !.watermark.height = wh] :
      ww \in 1..MaxWm, wh \in 1..MaxWm }

Calls == ResizeCalls \cup PlaceCalls \cup AlphaCalls \cup NameCalls \cup IndexCalls
         \cup EncodeCalls \cup ScenarioCalls

(***************************************************************************)
(* The window.  form holds the values of the widgets; a numeric entry      *)
(* holds the decimal text num/den as <<num, den>>, or NotANumber for a     *)
(* text float() and int() reject, and target_width holds the integer text  *)
(* n as <<n>>, or NotANumber.                                              *)
(***************************************************************************)
MaxRuns == 2

NotANumber == <<>>
NoFolder == <<>>
NotADir == <<"f">>

N_c_jpeg == <<"c", ".", "j", "p", "e", "g">>

\* what os.listdir(input_folder) returns
Listings ==
  { <<>>,
    <<N_a_jpg, N_notes_txt, N_a_png>>,
    <<N_b_JPG, N_xjpg>>,
    <<N_c_jpeg>> }

\* what the files of the input folder and bin/logo/watermark.png hold
FileImage == [width |-> MaxDim, height |-> MaxDim - 3, mode |-> "RGBA"]
LogoImage == [readable |-> TRUE, width |-> 1, height |-> 1, alpha |-> MaxAlpha]

DefaultForm ==
  [ input_path |-> InDir, output_path |-> OutDir,
    opacity |-> <<5, 10>>, watermark_ratio |-> <<1, 10>>,
    target_width |-> <<0>>, position |-> "bottom_right",
    custom_name |-> DefaultName, keep_original_name |-> TRUE,
    output_format |-> F_JPG, png_transparency |-> TRUE ]

Forms ==
  { DefaultForm,
    [DefaultForm EXCEPT !.custom_name = CustomWm, !.keep_original_name = FALSE,
                        !.output_format = F_PNG, !.target_width = <<MaxTargetWidth>>],
    [DefaultForm EXCEPT !.output_format = <<"B", "M", "P">>, !.position = "middle"],
    [DefaultForm EXCEPT !.opacity = <<0, 10>>],
    [DefaultForm EXCEPT !.target_width = NotANumber],
    [DefaultForm EXCEPT !.input_path = NotADir] }

\* os.path.exists(path) for the input folder
path_exists(path) == path \in {InDir, NotADir}

\* 0.1 <= float(text) <= 1.0
in_unit_range(text) ==
  One({ FLe(FParse(1, 10), x) /\ FLe(x, FParse(1, 1)) : x \in {FParse(text[1], text[2])} })

\* validate_inputs: the message of the ValueError raised, "" when none is;
\* watermark_exists is os.path.exists('bin/logo/watermark.png')
MutValidateNoRange(f, watermark_exists) ==
  IF f.input_path = NoFolder \/ ~path_exists(f.input_path) THEN "input_path"
  ELSE IF f.output_path = NoFolder THEN "output_path"
  ELSE IF ~watermark_exists THEN "watermark"
  ELSE IF f.opacity = NotANumber THEN "float"
  ELSE IF f.target_width = NotANumber THEN "int"
  ELSE IF f.watermark_ratio = NotANumber THEN "float"
  ELSE ""

validate_inputs(f, watermark_exists) ==
  IF f.input_path = NoFolder \/ ~path_exists(f.input_path) THEN "input_path"
  ELSE IF f.output_path = NoFolder THEN "output_path"
  ELSE IF ~watermark_exists THEN "watermark"
  ELSE IF f.opacity = NotANumber THEN "float"
  ELSE IF ~in_unit_range(f.opacity) THEN "opacity"
  ELSE IF f.target_width = NotANumber THEN "int"
  ELSE IF f.target_width[1] < 0 THEN "target_width"
  ELSE IF f.watermark_ratio = NotANumber THEN "float"
  ELSE IF ~in_unit_range(f.watermark_ratio) THEN "watermark_ratio"
  ELSE ""

\* f.lower().endswith(('jpg', 'jpeg', 'png'))
ImageSuffixes == {<<"j", "p", "g">>, <<"j", "p", "e", "g">>, <<"p", "n", "g">>}
is_image_file(f) == \E suffix \in ImageSuffixes : endswith(lower(f), suffix)

\* [f for f in os.listdir(input_folder) if ...]
image_files(entries) == SelectSeq(entries, is_image_file)

\* the local variables of a run of add_watermark that has reached its loop
\* the parameters add_watermark reads from the widgets
read_params(f) ==
  [ input_folder |-> f.input_path, output_folder |-> f.output_path,
    opacity |-> f.opacity, target_width |-> f.target_width[1],
    watermark_ratio |-> f.watermark_ratio, position |-> f.position,
    custom_name |-> f.custom_name, output_format |-> f.output_format,
    keep_original_name |-> f.keep_original_name,
    png_transparency |-> f.png_transparency ]

new_run(f, entries) ==
  [ cfg |-> read_params(f),
    image_files |-> image_files(entries),
    total_count |-> Len(image_files(entries)),
    index |-> 1,
    processed_count |-> 0,
    calls |-> <<>>,
    outputs |-> <<>>,
    pc |-> "loop" ]

\* the arguments of the call for the file at position index of the list
compositor_call(run, readable, encode_ok) ==
  [ input_image_path |-> join(run.cfg.input_folder, run.image_files[run.index]),
    output_image_path |-> run.cfg.output_folder,
    image |-> [readable |-> readable, width |-> FileImage.width,
               height |-> FileImage.height, mode |-> FileImage.mode],
    watermark |-> LogoImage,
    opacity |-> run.cfg.opacity,
    target_width |-> run.cfg.target_width,
    watermark_ratio |-> run.cfg.watermark_ratio,
    position |-> run.cfg.position,
    output_format |-> run.cfg.output_format,
    custom_name |-> run.cfg.custom_name,
    keep_original_name |-> run.cfg.keep_original_name,
    file_index |-> run.index,
    png_transparency |-> run.cfg.png_transparency,
    encode_ok |-> encode_ok ]

\* the call is on record, and the loop is at the next file
called(run, c) ==
  [run EXCEPT !.calls = Append(run.calls, <<run.image_files[run.index], c.file_index>>),
              !.index = run.index + 1]

\* what the calls of the run gave: the path returned, <<>> for a call that raised
with_output(run, r) == [run EXCEPT !.outputs = Append(run.outputs, r.value)]

\* the call returned: processed_count += 1, then self.root.update()
MutLoopSuccessNoCount(run, c) == [called(run, c) EXCEPT !.pc = "update"]

loop_success(run, c) ==
  [called(run, c) EXCEPT !.processed_count = run.processed_count + 1, !.pc = "update"]

\* the settings dictionary handed to save_settings: the locals of the run
MutSettingsSwapped(run) == [run.cfg EXCEPT !.opacity = run.cfg.watermark_ratio]

settings_dict(run) == run.cfg

\* except Exception: a warning, and the loop goes on
MutLoopExceptBreak(run, c) ==
  [called(run, c) EXCEPT !.index = run.total_count + 1]

loop_except(run, c) == called(run, c)

VARIABLES
  call,      \* the arguments of the last call of add_image_watermark
  ret,       \* what that call left behind
  form,      \* the values of the widgets
  listing,   \* the entries of the input folder
  runs,      \* the runs of add_watermark in progress, the innermost last
  started,   \* the number of clicks on the start button so far
  dialog,    \* the last message box shown
  summary,   \* <<processed_count, total_count>> of the last summary, or <<>>
  progress,  \* progress_var, as <<processed_count, total_count>>, or <<>> for 0
  disk,      \* the paths of the files written
  settings   \* the content of bin/settings.json, <<>> when there is none

vars == <<call, ret, form, listing, runs, started, dialog, summary, progress, disk, settings>>

window == <<form, listing, runs, started, dialog, summary, progress, disk, settings>>

Top == runs[Len(runs)]

\* the run in progress replaced by run
SetTop(run) == [runs EXCEPT ![Len(runs)] = run]

\* the event loop dispatches: no run is in progress, or the innermost one is
\* inside self.root.update()
Dispatching == IF runs = <<>> THEN TRUE ELSE Top.pc = "update"

Init ==
  /\ call = DefaultCall
  /\ ret = NoResult
  /\ form \in Forms
  /\ listing \in Listings
  /\ runs = <<>>
  /\ started = 0
  /\ dialog = ""
  /\ summary = <<>>
  /\ progress = <<>>
  /\ disk = {}
  /\ settings = <<>>

\* the user changes the values of the widgets
EditForm ==
  /\ Dispatching
  /\ form' \in Forms \ {form}
  /\ UNCHANGED <<call, ret, listing, runs, started, dialog, summary, progress, disk, settings>>

\* the start button: add_watermark up to its loop
Click ==
  /\ Dispatching
  /\ started < MaxRuns
  /\ started' = started + 1
  /\ \E watermark_exists \in BOOLEAN :
       \E message \in {validate_inputs(form, watermark_exists)} :
         IF message # ""
         THEN /\ dialog' = "input_error"
              /\ UNCHANGED <<runs, progress>>
         ELSE IF form.input_path = NotADir
         THEN /\ dialog' = "error"
              /\ progress' = <<>>
              /\ UNCHANGED runs
         ELSE /\ runs' = Append(runs, new_run(form, listing))
              /\ UNCHANGED <<dialog, progress>>
  /\ UNCHANGED <<call, ret, form, listing, summary, disk, settings>>

\* one turn of the loop: the next file goes to add_image_watermark
Step ==
  /\ runs # <<>>
  /\ Top.pc = "loop"
  /\ Top.index <= Top.total_count
  /\ \E readable \in BOOLEAN, encode_ok \in BOOLEAN :
       \E c \in {compositor_call(Top, readable, encode_ok)} :
         \E r \in {add_image_watermark(c)} :
           /\ call' = c
           /\ ret' = r
           /\ IF r.status = "returned"
              THEN /\ runs' = SetTop(with_output(loop_success(Top, c), r))
                   /\ progress' = <<Top.processed_count + 1, Top.total_count>>
                   /\ disk' = disk \cup {r.value}
                   /\ UNCHANGED dialog
              ELSE /\ runs' = SetTop(with_output(loop_except(Top, c), r))
                   /\ dialog' = "warning"
                   /\ UNCHANGED <<progress, disk>>
  /\ UNCHANGED <<form, listing, started, summary, settings>>

\* self.root.update() returns
Resume ==
  /\ runs # <<>>
  /\ Top.pc = "update"
  /\ runs' = SetTop([Top EXCEPT !.pc = "loop"])
  /\ UNCHANGED <<call, ret, form, listing, started, dialog, summary, progress, disk, settings>>

\* after the loop: the summary, then save_settings
Finish ==
  /\ runs # <<>>
  /\ Top.pc = "loop"
  /\ Top.index > Top.total_count
  /\ summary' = <<Top.processed_count, Top.total_count>>
  /\ \E write_ok \in BOOLEAN :
       IF write_ok
       THEN settings' = <<settings_dict(Top)>> /\ dialog' = "info"
       ELSE dialog' = "error" /\ UNCHANGED settings
  /\ runs' = SubSeq(runs, 1, Len(runs) - 1)
  /\ UNCHANGED <<call, ret, form, listing, started, progress, disk>>

Next == EditForm \/ Click \/ Step \/ Resume \/ Finish

Spec == Init /\ [][Next]_vars

\* the loop runs on by itself, and an update returns once the pending
\* events are dispatched
FairSpec == Spec /\ WF_vars(Step) /\ WF_vars(Resume) /\ WF_vars(Finish)

(***************************************************************************)
(* The compositor on its own: a call is drawn, and the call is made.       *)
(***************************************************************************)
CompositorInit ==
  /\ call \in Calls
  /\ ret = NoResult
  /\ form = DefaultForm
  /\ listing = <<>>
  /\ runs = <<>>
  /\ started = 0
  /\ dialog = ""
  /\ summary = <<>>
  /\ progress = <<>>
  /\ disk = {}
  /\ settings = <<>>

Invoke == ret.status = "none" /\ ret' = add_image_watermark(call) /\ UNCHANGED <<call, window>>

CompositorNext == Invoke

CompositorSpec == CompositorInit /\ [][CompositorNext]_vars

(***************************************************************************)
(* The properties.  Each is stated over the arguments of a call and what   *)
(* the call left behind, in integer arithmetic of its own.                 *)
(***************************************************************************)
\* the format tags of the calls, by the format they name in any case
JpegTags == {F_JPG, F_JPEG, <<"j", "p", "g">>}
PngTags == {F_PNG, <<"P", "n", "g">>}
TiffTags == {F_TIFF, <<"t", "i", "f", "f">>}
WebpTags == {F_WEBP}
SupportedTags == JpegTags \cup PngTags \cup TiffTags \cup WebpTags

\* the position was computed: the call got as far as the paste
Placed == ret.step \in {"format", "save", "done"}

BaseW == ret.base_size[1]
BaseH == ret.base_size[2]
WmW == ret.watermark_size[1]
WmH == ret.watermark_size[2]
PosX == ret.watermark_position[1]
PosY == ret.watermark_position[2]

Corners == {"top_left", "top_right", "bottom_right", "bottom_left"}

Inside == 0 <= PosX /\ 0 <= PosY /\ PosX + WmW <= BaseW /\ PosY + WmH <= BaseH

\* the margins on both sides differ by at most the one pixel of an odd difference
Centred ==
  /\ (BaseW - WmW) - 2 * PosX \in {0, 1}
  /\ (BaseH - WmH) - 2 * PosY \in {0, 1}

\* C1 as the spec states it: for every accepted ratio and target width and
\* every size, a corner anchor keeps the watermark fully inside the base
\* image, and the center anchor centres it.
C1_AlwaysInside ==
  Placed =>
    /\ call.position \in Corners => Inside
    /\ call.position = "center" => Centred

\* C1, amended: with a corner anchor the watermark lies fully inside the base
\* image exactly when it leaves room for the inset, wm_w + 10 <= base_w and
\* wm_h + 10 <= base_h; the center anchor centres it (to the pixel of an odd
\* difference), inside exactly when the watermark is no larger than the base.
C1_InsideIffRoom ==
  Placed =>
    /\ call.position \in Corners =>
         (Inside <=> (WmW + 10 <= BaseW /\ WmH + 10 <= BaseH))
    /\ call.position = "center" =>
         /\ Centred
         /\ Inside <=> (WmW <= BaseW /\ WmH <= BaseH)

C1_Witness_Overhang ==
  /\ Placed
  /\ call.position = "top_right"
  /\ call.watermark_ratio = <<RatioDen, RatioDen>>
  /\ PosX < 0
  /\ ~Inside

\* C2: the corner of the watermark is (10, 10), (base_w - wm_w - 10, 10),
\* (base_w - wm_w - 10, base_h - wm_h - 10), (10, base_h - wm_h - 10) or the
\* floor of half the differences, by the anchor, over the size after the
\* resize; a tag that is none of the five gives (10, 10) and no error.
C2_PositionFormulas ==
  /\ Placed =>
       /\ BaseW = (IF call.target_width # 0 THEN call.target_width ELSE call.image.width)
       /\ call.position = "top_left" => ret.watermark_position = <<10, 10>>
       /\ call.position = "top_right" => ret.watermark_position = <<BaseW - WmW - 10, 10>>
       /\ call.position = "bottom_right" =>
            ret.watermark_position = <<BaseW - WmW - 10, BaseH - WmH - 10>>
       /\ call.position = "bottom_left" => ret.watermark_position = <<10, BaseH - WmH - 10>>
       /\ call.position = "center" =>
            /\ 2 * PosX <= BaseW - WmW /\ BaseW - WmW < 2 * PosX + 2
            /\ 2 * PosY <= BaseH - WmH /\ BaseH - WmH < 2 * PosY + 2
       /\ call.position \notin Positions => ret.watermark_position = <<10, 10>>
  /\ (Placed /\ call.position \notin Positions /\ call.encode_ok
        /\ call.output_format \in SupportedTags) =>
       ret.status = "returned"

C2_Witness_UnknownTag ==
  /\ ret.status = "returned"
  /\ call.position = "middle"
  /\ ret.watermark_position = <<10, 10>>
  /\ BaseW - WmW - 10 # 10

\* the output directory with its separator, and the name of the file in it
DirPrefix ==
  IF call.output_image_path[Len(call.output_image_path)] = "/"
  THEN call.output_image_path
  ELSE call.output_image_path \o <<"/">>

FileName == SubSeq(ret.output_path, Len(DirPrefix) + 1, Len(ret.output_path))

\* C4: a call ends in one of two ways: it returns the full path of the
\* output file, the output directory joined with the file name, or it raises
\* one ProcessingError (RuntimeError) that carries the failure that caused
\* it; no failure of a step reaches the caller as another kind of error.
C4_ReturnsPathOrRaisesWrapped ==
  ret.status # "none" =>
    \/ /\ ret.status = "returned"
       /\ ret.error = "" /\ ret.cause = ""
       /\ ret.value = DirPrefix \o FileName
       /\ Len(FileName) > 0
       /\ \A i \in 1..Len(FileName) : FileName[i] # "/"
       /\ ret.saved
    \/ /\ ret.status = "raised"
       /\ ret.error = "RuntimeError"
       /\ ret.value = <<>>
       /\ ret.cause \in {"DecodeError", "ValueError", "UnsupportedFormat", "EncodeError"}
       /\ ret.cause = "DecodeError" => (~call.image.readable \/ ~call.watermark.readable)
       /\ ret.cause = "UnsupportedFormat" => call.output_format \notin SupportedTags
       /\ ret.cause = "EncodeError" => ~call.encode_ok

C4_Witness_WrappedEncodeFailure ==
  /\ ret.status = "raised"
  /\ ret.error = "RuntimeError"
  /\ ret.cause = "EncodeError"
  /\ call.image.readable /\ call.watermark.readable

\* C5 as the spec states it: with a format tag that is none of JPG, JPEG,
\* PNG, TIFF, WEBP in any case, the call fails with an UnsupportedFormatError,
\* returns no path and writes no file.
C5_FailsWithUnsupportedFormatError ==
  (ret.status # "none" /\ call.output_format \notin SupportedTags) =>
    /\ ret.status = "raised"
    /\ ret.error = "UnsupportedFormat"
    /\ ret.value = <<>>
    /\ ~ret.saved

\* C5, amended: with such a tag the call fails with the ProcessingError
\* (RuntimeError) every failure is re-raised as; the unsupported format is what
\* it carries as its cause, unless an earlier step (decode, resize) failed
\* first; it returns no path and writes no file.
C5_UnsupportedFormatIsWrapped ==
  (ret.status # "none" /\ call.output_format \notin SupportedTags) =>
    /\ ret.status = "raised"
    /\ ret.error = "RuntimeError"
    /\ (call.image.readable /\ call.watermark.readable /\ Placed) =>
         ret.cause = "UnsupportedFormat"
    /\ ~Placed => ret.cause \in {"DecodeError", "ValueError"}
    /\ ret.value = <<>>
    /\ ~ret.saved

C5_Witness_UnsupportedTag ==
  /\ call.output_format = <<"B", "M", "P">>
  /\ call.encode_ok
  /\ ret.status = "raised"
  /\ ret.cause = "UnsupportedFormat"
  /\ ~ret.saved

\* the base name of the input file, and the name without its last extension
\* (a dot that only dots precede starts no extension)
InputName ==
  LET seps == {i \in 1..Len(call.input_image_path) : call.input_image_path[i] = "/"}
      after == IF seps = {} THEN 1 ELSE (CHOOSE i \in seps : \A j \in seps : j <= i) + 1
  IN  SubSeq(call.input_image_path, after, Len(call.input_image_path))

InputStem ==
  LET dots == {i \in 1..Len(InputName) :
                 InputName[i] = "." /\ \E k \in 1..(i - 1) : InputName[k] # "."}
  IN  IF dots = {} THEN InputName
      ELSE SubSeq(InputName, 1, (CHOOSE i \in dots : \A j \in dots : j <= i) - 1)

\* one character in lower case, and the tag in lower case
LowerOf(c) ==
  CASE c = "J" -> "j" [] c = "P" -> "p" [] c = "G" -> "g" [] c = "E" -> "e"
    [] c = "N" -> "n" [] c = "T" -> "t" [] c = "I" -> "i" [] c = "F" -> "f"
    [] c = "W" -> "w" [] c = "B" -> "b" [] c = "M" -> "m" [] OTHER -> c

Ext == <<".">> \o [i \in 1..Len(call.output_format) |-> LowerOf(call.output_format[i])]

\* the index in decimal, with zeros in front up to three digits
IndexDigits(n) ==
  LET d(k) == DigitChars[(k % 10) + 1]
  IN  IF n < 1000 THEN <<d(n \div 100), d(n \div 10), d(n)>>
      ELSE <<d(n \div 1000), d(n \div 100), d(n \div 10), d(n)>>

Sequential == call.custom_name # DefaultName /\ ~call.keep_original_name

\* the characters of the file name between "<prefix>_" and ".<ext>"
IndexPart ==
  SubSeq(FileName, Len(call.custom_name) + 2,
         Len(FileName) - Len(call.output_format) - 1)

\* the number a string of digits writes, -1 when a character is no digit
RECURSIVE DigitsValue(_)
DigitsValue(d) ==
  IF d = <<>> THEN 0
  ELSE LET last == d[Len(d)]
           rest == DigitsValue(SubSeq(d, 1, Len(d) - 1))
       IN  IF rest < 0 \/ ~(\E k \in 1..10 : DigitChars[k] = last) THEN -1
           ELSE 10 * rest + (CHOOSE k \in 1..10 : DigitChars[k] = last) - 1

\* C7 as the spec states it: in sequential naming the index in the file
\* name is exactly three digits, zero-padded, for every position in a batch
\* of any size, and the first file gets 001.
C7_IndexExactlyThreeDigits ==
  (Placed /\ Sequential) =>
    /\ Len(IndexPart) = 3
    /\ DigitsValue(IndexPart) = call.file_index
    /\ call.file_index = 1 => IndexPart = <<"0", "0", "1">>

\* C7, amended: the index in the file name is the 1-based position in
\* decimal, zero-padded to three digits at least: exactly three digits up to
\* position 999, all the digits of the position from 1000 on; the first file
\* gets 001.
C7_IndexAtLeastThreeDigits ==
  (Placed /\ Sequential) =>
    /\ DigitsValue(IndexPart) = call.file_index
    /\ Len(IndexPart) >= 3
    /\ call.file_index <= 999 => Len(IndexPart) = 3
    /\ call.file_index >= 1000 => (Len(IndexPart) > 3 /\ IndexPart[1] # "0")
    /\ call.file_index = 1 => IndexPart = <<"0", "0", "1">>

C7_Witness_FourDigits ==
  /\ Placed /\ Sequential
  /\ call.file_index = 1000
  /\ IndexPart = <<"1", "0", "0", "0">>

\* C8: JPG and JPEG output is 3-channel whatever the alpha-retention flag and
\* the mode of the composited image; PNG output is 3-channel with the flag
\* off and keeps the mode (and so the alpha channel) of the composited image
\* with the flag on; TIFF output keeps the mode unchanged.
C8_ChannelFormByFormat ==
  ret.status = "returned" =>
    /\ call.output_format \in JpegTags =>
         (ret.encoded.format = "JPEG" /\ ret.encoded.mode = "RGB")
    /\ (call.output_format \in PngTags /\ ~call.png_transparency) =>
         (ret.encoded.format = "PNG" /\ ret.encoded.mode = "RGB")
    /\ (call.output_format \in PngTags /\ call.png_transparency) =>
         (ret.encoded.format = "PNG" /\ ret.encoded.mode = call.image.mode)
    /\ call.output_format \in TiffTags =>
         (ret.encoded.format = "TIFF" /\ ret.encoded.mode = call.image.mode)

C8_Witness_PngAlphaDropped ==
  /\ ret.status = "returned"
  /\ call.output_format = F_PNG
  /\ ~call.png_transparency
  /\ call.image.mode = "RGBA"
  /\ ret.encoded.mode = "RGB"

\* the alpha of the watermark was scaled: the call got past the fading
Faded == ret.step \in {"watermark_resize", "format", "save", "done"}

OpacityNum == call.opacity[1]
OpacityDen == call.opacity[2]

\* n is floor(num / den), or one less when num / den is whole
FloorOrJustBelow(n, num, den) ==
  IF num % den # 0 THEN n = num \div den
  ELSE n \in {num \div den, (num \div den) - 1}

\* C9 as the spec states it: for every opacity in [0.1, 1.0] and every alpha
\* a in 0..255 the scaled alpha is round(a * opacity), a nearest integer,
\* within 0..255.
C9_AlphaIsRounded ==
  Faded =>
    /\ ret.watermark_alpha \in 0..255
    /\ 2 * (call.watermark.alpha * OpacityNum - ret.watermark_alpha * OpacityDen)
         <= OpacityDen
    /\ 2 * (ret.watermark_alpha * OpacityDen - call.watermark.alpha * OpacityNum)
         <= OpacityDen

\* C9, amended: the scaled alpha is int(a * opacity), the product truncated:
\* floor(a * opacity), or one less where a * opacity is a whole number that
\* the floating-point product falls just short of; it lies within 0..255,
\* and full alpha 255 ends at int(255 * opacity).
C9_AlphaIsTruncated ==
  Faded =>
    /\ ret.watermark_alpha \in 0..255
    /\ ret.watermark_alpha <= call.watermark.alpha
    /\ FloorOrJustBelow(ret.watermark_alpha, call.watermark.alpha * OpacityNum, OpacityDen)
    /\ (call.opacity = <<5, 10>> /\ call.watermark.alpha = 255) => ret.watermark_alpha = 127
    /\ (call.opacity = <<10, 10>>) => ret.watermark_alpha = call.watermark.alpha

C9_Witness_HalfOfFullAlpha ==
  /\ Faded
  /\ call.opacity = <<5, 10>>
  /\ call.watermark.alpha = 255
  /\ ret.watermark_alpha = 127

\* the base image was opened and, when asked for, resized
Resized == ret.status # "none" /\ ret.step \notin {"open", "resize"}

\* C10 as the spec states it: with target_width 0 the base image keeps its
\* size; with target_width N > 0 it gets width N and height
\* round(N / (width / height)), a nearest integer.
C10_HeightIsRounded ==
  Resized =>
    /\ call.target_width = 0 => ret.base_size = <<call.image.width, call.image.height>>
    /\ call.target_width > 0 =>
         /\ BaseW = call.target_width
         /\ 2 * (call.target_width * call.image.height - BaseH * call.image.width)
              <= call.image.width
         /\ 2 * (BaseH * call.image.width - call.target_width * call.image.height)
              <= call.image.width

\* C10, amended: with target_width 0 the base image keeps its size; with
\* target_width N > 0 it gets width N and height int(N / (width / height)),
\* the quotient truncated: floor(N * height / width), or one less where that
\* is a whole number the floating-point quotient falls just short of; when
\* this height is 0 the resize fails and the call raises.
C10_HeightIsTruncated ==
  /\ Resized =>
       /\ call.target_width = 0 => ret.base_size = <<call.image.width, call.image.height>>
       /\ call.target_width > 0 =>
            /\ BaseW = call.target_width
            /\ BaseH >= 1
            /\ FloorOrJustBelow(BaseH, call.target_width * call.image.height,
                                call.image.width)
  /\ ret.step = "resize" =>
       /\ call.target_width > 0
       /\ ret.status = "raised" /\ ret.cause = "ValueError"
       /\ FloorOrJustBelow(0, call.target_width * call.image.height, call.image.width)
  /\ (ret.status # "none" /\ call.image.readable /\ call.target_width > 0
        /\ call.target_width * call.image.height >= 2 * call.image.width) =>
       Resized

C10_Witness_TruncatedHeight ==
  /\ Resized
  /\ call.image.width = 9 /\ call.image.height = 7
  /\ call.target_width = 9
  /\ ret.base_size = <<9, 6>>

\* the files a run has passed to the compositor are the first of its list,
\* each once, in the order of the list, each with its 1-based position
PassedInOrder(run) ==
  /\ run.index \in 1..(run.total_count + 1)
  /\ Len(run.calls) = run.index - 1
  /\ \A k \in 1..Len(run.calls) : run.calls[k] = <<run.image_files[k], k>>
  /\ run.processed_count <= Len(run.calls)

\* a run ends: with every file of its list passed, and with its summary
RunEnds ==
  Len(runs') < Len(runs) =>
    /\ Len(Top.calls) = Len(Top.image_files)
    /\ PassedInOrder(Top)
    /\ summary' = <<Top.processed_count, Top.total_count>>
    /\ runs' = SubSeq(runs, 1, Len(runs) - 1)

\* C3: a failure of the compositor on a file never aborts the batch: every
\* file of the list is passed to the compositor exactly once, in list order,
\* with its 1-based position as index, whichever earlier files failed, and
\* the run then reaches its summary.
C3_BatchRunsToSummary ==
  /\ [](\A i \in 1..Len(runs) : PassedInOrder(runs[i]))
  /\ [][RunEnds]_vars
  /\ \A d \in 1..MaxRuns : (Len(runs) >= d) ~> (Len(runs) < d)

C3_Witness_GoesOnAfterFailure ==
  /\ runs # <<>>
  /\ Len(Top.calls) = 2
  /\ Top.processed_count = 1
  /\ ret.status = "returned"
  /\ call.file_index = 2
  /\ call.input_image_path = join(InDir, Top.image_files[2])

\* the width the ratio is taken of
RatioBase == IF call.target_width > 0 THEN call.target_width ELSE call.image.width

\* C11: the watermark is resized to width ratio * (target_width if
\* target_width > 0, else the width of the base image), as an integer, and to
\* the height its own aspect ratio gives that width; for a 2000x1000 base,
\* target_width 1000, ratio 0.2 and bottom right, the width is 200 and the
\* corner (1000 - 200 - 10, 500 - wm_h - 10).
C11_WatermarkSize ==
  Placed =>
    /\ FloorOrJustBelow(WmW, call.watermark_ratio[1] * RatioBase, call.watermark_ratio[2])
    /\ FloorOrJustBelow(WmH, WmW * call.watermark.height, call.watermark.width)
    /\ WmW >= 1 /\ WmH >= 1
    /\ call \in ScenarioCalls =>
         /\ ret.base_size = <<1000, 500>>
         /\ WmW = 200
         /\ ret.watermark_position = <<1000 - 200 - 10, 500 - WmH - 10>>

C11_Witness_Scenario ==
  /\ ret.status = "returned"
  /\ call.image.width = 2000 /\ call.image.height = 1000
  /\ call.target_width = 1000
  /\ call.watermark_ratio = <<2, 10>>
  /\ call.watermark.width = 2 /\ call.watermark.height = 1
  /\ ret.watermark_size = <<200, 100>>
  /\ ret.watermark_position = <<790, 390>>

\* the extension of a name: what follows its last dot, <<>> without a dot
ExtensionOf(name) ==
  LET dots == {i \in 1..Len(name) : name[i] = "."}
  IN  IF dots = {} THEN <<>>
      ELSE SubSeq(name, (CHOOSE i \in dots : \A j \in dots : j <= i) + 1, Len(name))

HasImageExtension(name) ==
  [i \in 1..Len(ExtensionOf(name)) |-> LowerOf(ExtensionOf(name)[i])]
    \in {<<"j", "p", "g">>, <<"j", "p", "e", "g">>, <<"p", "n", "g">>}

\* C12: the driver selects an entry of the input directory if and only if
\* its extension is jpg, jpeg or png in any case; a name that only ends in
\* those letters, without a dot before them, is not selected.
C12_SelectedIffExtension ==
  \A i \in 1..Len(runs) :
    runs[i].image_files = SelectSeq(listing, HasImageExtension)

\* a decimal num/den within [0.1, 1.0]
InUnitRange(t) == 10 * t[1] >= t[2] /\ t[1] <= t[2]

\* the numbers of the form are ones validate_inputs accepts
NumbersValid(f) ==
  IF f.opacity = <<>> \/ f.target_width = <<>> \/ f.watermark_ratio = <<>> THEN FALSE
  ELSE InUnitRange(f.opacity) /\ f.target_width[1] >= 0 /\ InUnitRange(f.watermark_ratio)

\* the parameters of a run that has called the compositor are valid numbers
CalledWithValidNumbers(run) ==
  run.calls # <<>> =>
    /\ InUnitRange(run.cfg.opacity)
    /\ run.cfg.target_width >= 0
    /\ InUnitRange(run.cfg.watermark_ratio)

\* a click on a form whose numbers are not valid processes no file
RejectedProcessesNothing ==
  (started' # started /\ ~NumbersValid(form)) =>
    /\ dialog' = "input_error"
    /\ UNCHANGED <<runs, call, ret, disk, settings, summary>>

\* C13 as the spec states it: the compositor is invoked only when opacity is
\* in [0.1, 1.0], target width >= 0, the ratio in [0.1, 1.0], the position
\* one of the five anchors and the format a supported one.
C13_EverythingValidated ==
  \A i \in 1..Len(runs) :
    /\ CalledWithValidNumbers(runs[i])
    /\ runs[i].calls # <<>> =>
         /\ runs[i].cfg.position \in Positions
         /\ runs[i].cfg.output_format \in SupportedTags

\* C13, amended: the compositor is invoked only when opacity is in
\* [0.1, 1.0], target width >= 0 and the ratio in [0.1, 1.0]; the position
\* and the output format are not validated (an unknown position is placed
\* top-left, an unsupported format fails file by file); when validation
\* rejects the form, no file is processed in that run.
C13_NumbersValidated ==
  /\ [](\A i \in 1..Len(runs) : CalledWithValidNumbers(runs[i]))
  /\ [][RejectedProcessesNothing]_vars

C13_Witness_UnvalidatedTags ==
  /\ runs # <<>>
  /\ Top.calls # <<>>
  /\ Top.cfg.position = "middle"
  /\ Top.cfg.output_format = <<"B", "M", "P">>
  /\ ret.status = "raised" /\ ret.cause = "UnsupportedFormat"

\* the stored settings change only when a run ends, after every file of its
\* list has been attempted and with its summary, to the values of that run
SettingsWrittenAtRunEnd ==
  settings' # settings =>
    /\ runs # <<>>
    /\ Len(runs') = Len(runs) - 1
    /\ Len(Top.calls) = Top.total_count
    /\ Top.index = Top.total_count + 1
    /\ summary' = <<Top.processed_count, Top.total_count>>
    /\ dialog' = "info"
    /\ Len(settings') = 1
    /\ settings'[1].input_folder = Top.cfg.input_folder
    /\ settings'[1].output_folder = Top.cfg.output_folder
    /\ settings'[1].opacity = Top.cfg.opacity
    /\ settings'[1].target_width = Top.cfg.target_width
    /\ settings'[1].watermark_ratio = Top.cfg.watermark_ratio
    /\ settings'[1].position = Top.cfg.position
    /\ settings'[1].custom_name = Top.cfg.custom_name
    /\ settings'[1].output_format = Top.cfg.output_format
    /\ settings'[1].keep_original_name = Top.cfg.keep_original_name
    /\ settings'[1].png_transparency = Top.cfg.png_transparency

\* a click never writes the settings: neither one that validation rejects,
\* nor one whose run aborts on listing the input directory, nor one that
\* starts a run
ClickWritesNothing == started' # started => settings' = settings

\* the calls of a run leave the settings alone
LoopWritesNothing ==
  (runs # <<>> /\ Len(runs') = Len(runs) /\ runs' # runs) => settings' = settings

\* C14: the settings are written once per run, after every file of the batch
\* has been attempted and the summary reported, with the parameter values
\* the run used; a click rejected by validation, or a run aborted before its
\* loop, leaves the stored settings unchanged, and so does the loop itself.
C14_SettingsWrittenAfterRun ==
  /\ [][SettingsWrittenAtRunEnd]_vars
  /\ [][ClickWritesNothing]_vars
  /\ [][LoopWritesNothing]_vars

C14_Witness_SavedAfterFailure ==
  /\ runs = <<>>
  /\ dialog = "info"
  /\ summary = <<1, 2>>
  /\ settings # <<>>
  /\ settings[1].custom_name = CustomWm
  /\ settings[1].opacity # settings[1].watermark_ratio
  /\ form.custom_name = DefaultName

\* the files of a run for which the compositor returned a path / failed
Succeeded(run) == {k \in 1..Len(run.outputs) : run.outputs[k] # <<>>}
Failed(run) == {k \in 1..Len(run.outputs) : run.outputs[k] = <<>>}

CounterInStep(run) ==
  /\ Len(run.outputs) = Len(run.calls)
  /\ run.processed_count <= Len(run.calls)
  /\ Len(run.calls) <= run.total_count
  /\ run.processed_count = Cardinality(Succeeded(run))
  /\ run.total_count = Len(SelectSeq(listing, is_image_file))

SummaryCounts ==
  Len(runs') < Len(runs) =>
    /\ summary'[1] = Cardinality(Succeeded(Top))
    /\ summary'[2] = Len(Top.image_files)
    /\ summary'[1] + Cardinality(Failed(Top)) = summary'[2]

\* C15: throughout a run the success counter never exceeds the number of
\* files attempted so far, which never exceeds the total; in the summary the
\* success count is the number of files for which the compositor returned a
\* path, the total is the number of selected files, and successes plus
\* failures make the total.
C15_CountsAddUp ==
  /\ [](\A i \in 1..Len(runs) : CounterInStep(runs[i]))
  /\ [][SummaryCounts]_vars

C15_Witness_OneOfTwo ==
  /\ runs = <<>>
  /\ summary = <<1, 2>>
  /\ ret.status = "raised"
  /\ call.file_index = 2
  /\ disk # {}

\* C16: batch runs never overlap: while a run is between the start of its
\* loop and its summary, no other run invokes the compositor, although the
\* run yields to the event loop after each file it processed.
C16_RunsNeverOverlap ==
  \A i \in 2..Len(runs) : runs[i].calls = <<>>

\* C17: within one run, two different input files are never written to the
\* same output path: the output of a file is not overwritten by the output
\* of another file of the same batch.
C17_OutputPathsDistinct ==
  \A i \in 1..Len(runs) :
    \A j \in Succeeded(runs[i]), k \in Succeeded(runs[i]) :
      runs[i].image_files[j] # runs[i].image_files[k]
        => runs[i].outputs[j] # runs[i].outputs[k]
====
